---- MODULE Spec2Model ----
(***************************************************************************)
(* Client-side controllers of the portfolio page: the application          *)
(* controller (js/main.js), the section controllers (js/sections.js), the  *)
(* configuration singleton (js/config.js) and the DOM / animation / scroll *)
(* utilities (docs/js/utils.js).                                           *)
(*                                                                         *)
(* JavaScript runs handlers to completion on one thread.  The body of      *)
(* PortfolioApp.init after its await is modelled as a sequence of steps    *)
(* (pc) during which no other handler may run; everything else is one      *)
(* action per handler.                                                     *)
(***************************************************************************)
EXTENDS Integers, Sequences, FiniteSets, Bags, TLC

\* ------------------------------------------------------------------ bounds
MaxInitCalls == 2        \* PortfolioApp.init() calls made by the page's scripts
MaxSectionInits == 2     \* further init() calls on registered section controllers
MaxInitialCards == 1     \* .project-card elements in the served markup
MaxCards == 2            \* .project-card elements once addProject has appended some
MaxTags == 2             \* .skill-tag elements, served or appended by addSkill
MaxBatch == 3            \* entries in one call of an IntersectionObserver's callback
MaxFadeCalls == 3        \* AnimationUtils.fadeIn calls made by the page's scripts
MaxResizeEvents == 5     \* resize events dispatched to the debounced listener
MaxScrollEvents == 4     \* scroll events dispatched to the throttled listener

\* --------------------------------------------------------------- constants
SectionNames == <<"hero", "projects", "skills">>
Sections == {"hero", "projects", "skills"}

ResizeWait == 250        \* debounce(..., 250)
ScrollLimit == 16        \* throttle(..., 16)
ScrollThreshold == 100   \* handleScroll: scrollPosition > 100
ProjectStep == 100       \* ProjectsSection.setupAnimations: index * 100
SkillStep == 50          \* SkillsSection.setupAnimations: index * 50

\* scroll positions the page is scrolled to, and the steps by which time passes
ScrollPositions == {0, 100, 101, 300}
TickSteps == {1, 8, 25, 125}

HoverTransform == "translateY(-10px) scale(1.02)"
RestTransform == "translateY(0) scale(1)"

\* Link targets, as sequences of characters.
Quote == "\""
Links == { <<"#">>, <<"h">>, <<"h", Quote, "x">> }
\* href attribute values of links in the served markup (no attribute: NoHref)
NoHref == <<"null">>
MarkupHrefs == { <<"#">>, <<"h">>, <<"#", "s">> }

VARIABLES
    \* host environment
    readyState,      \* document.readyState: "loading" or "ready" (interactive/complete)
    hasRoot,         \* hasRoot[n]: an element with id n is in the document
    ioDefined,       \* the IntersectionObserver constructor exists
    mqMatches,       \* matchMedia('(prefers-reduced-motion: reduce)').matches
    gridPresent,     \* an element .projects-grid is in the document
    cards,           \* the .project-card elements, in document order
    \* config.js
    config,
    \* PortfolioApp
    isInitialized,   \* this.isInitialized
    sections,        \* this.sections: name -> controller instance (0: no entry)
    waiting,         \* init() calls suspended at `await this.waitForDOM()`
    pc,              \* position of the running init() continuation
    run,             \* init() continuations started so far
    inst,            \* inst[r][n]: the controller of section n built by continuation r
    resizeListeners, \* listeners on window 'resize'
    scrollListeners, \* listeners on window 'scroll'
    motionListeners, \* listeners on the media query's 'change'
    \* bookkeeping of the calls made by the environment
    initCalls, sectionInitCalls,
    lastInitOn,      \* the section whose controller got the last further init() call
    lastClick,       \* the last click dispatched on a project link
    \* the debounced resize listener (debounce's closure) and what it did
    debTimeout,      \* ms until the pending `later` timer is due; -1: none pending
    debArgs,         \* the arguments captured by the pending `later`
    debLog,
    \* the throttled scroll listener (throttle's closure), the page and the header
    inThrottle,
    thrTimeout,      \* ms until the timer resetting inThrottle is due; -1: none
    thrLog,
    scrollY,         \* window.pageYOffset = document.documentElement.scrollTop
    headerPresent,   \* a <header> element is in the document
    headerScrolled,  \* the header's classList contains 'scrolled'
    \* the rest of the document
    heroNodes,       \* the nodes '.hero-content h1', '.tagline', '.summary-text'
    skillsGridPresent, \* an element .skills-grid is in the document
    skillTags,       \* the .skill-tag elements, in document order
    pointer,         \* the project card the pointer is over (0: none)
    \* what the handlers did
    scrollSetups,    \* scroll.smooth as read by each setupScrollBehavior run
    lastEvent,       \* the last motion-preference change or API call, and its effect
    \* observers and fade-ins
    unobserved,      \* <<r, n, kind, i>>: the observer has unobserved the target
    cbRuns,          \* bag of <<r, n, kind, i>>: runs of the observer's callback on it
    fades,           \* bag of the fade-ins under way: element, delay, phase
    styles           \* the inline style of each element, as fadeIn writes it

envVars == <<readyState, hasRoot, ioDefined, gridPresent>>
appVars == <<isInitialized, sections, waiting, pc, run, inst,
             resizeListeners, scrollListeners, motionListeners>>
callVars == <<initCalls, sectionInitCalls, lastInitOn>>
debVars == <<debTimeout, debArgs, debLog>>
thrVars == <<inThrottle, thrTimeout, thrLog, scrollY, headerPresent, headerScrolled>>
timerVars == <<debVars, thrVars>>
domVars == <<heroNodes, skillsGridPresent, skillTags, pointer>>
logVars == <<scrollSetups, lastEvent>>
animVars == <<unobserved, cbRuns, fades, styles>>
pageVars == <<domVars, logVars, animVars>>
vars == <<envVars, mqMatches, cards, config, appVars, callVars, lastClick, timerVars,
          pageVars>>

\* ------------------------------------------------------------------ config
\* PortfolioConfig constructor
InitialConfig ==
    [ animations |-> [enabled |-> TRUE, duration |-> 300, easing |-> "ease-in-out"],
      scroll |-> [smooth |-> TRUE, offset |-> 80],
      theme |-> [darkModeEnabled |-> FALSE, primaryColor |-> "#3498db",
                 secondaryColor |-> "#2ecc71"],
      sections |-> [hero |-> [enabled |-> TRUE, animationDelay |-> 100],
                    projects |-> [enabled |-> TRUE, animationDelay |-> 200],
                    skills |-> [enabled |-> TRUE, animationDelay |-> 300]] ]

\* { ...a, ...b } for records: b's fields override a's
Spread(a, b) ==
    [k \in DOMAIN a \cup DOMAIN b |-> IF k \in DOMAIN b THEN b[k] ELSE a[k]]

\* faulty variant: the partial record is merged into the constructor's values
UpdateAnimationConfigFromDefaults(c, newConfig) ==
    [c EXCEPT !.animations = Spread(InitialConfig.animations, newConfig)]

\* PortfolioConfig.updateAnimationConfig
UpdateAnimationConfig(c, newConfig) ==
    [c EXCEPT !.animations = Spread(c.animations, newConfig)]

\* JavaScript's a && b on booleans: a when a is falsy, else b
JsAnd(a, b) == IF a THEN b ELSE a

\* faulty variant: the media query is not consulted
AreAnimationsEnabledNoMedia(c, matches) == c.animations.enabled

\* PortfolioConfig.areAnimationsEnabled
AreAnimationsEnabled(c, matches) == JsAnd(c.animations.enabled, ~matches)

\* --------------------------------------------------------------------- DOM
\* A .project-card element with the listeners attached to it and to its
\* .project-link: enter/leave/click count the handlers the section attached,
\* anchor counts the smooth-scroll click handlers of setupScrollBehavior.
\* link is the text the href attribute was written from.
Card(initial, hasLink, link, href) ==
    [ initial |-> initial, hasLink |-> hasLink, link |-> link, href |-> href,
      enter |-> 0, leave |-> 0, click |-> 0, anchor |-> 0, transform |-> "" ]

MarkupCards ==
    {Card(TRUE, FALSE, NoHref, NoHref)} \cup {Card(TRUE, TRUE, h, h) : h \in MarkupHrefs}

SeqsUpTo(S, n) == UNION {[1..k -> S] : k \in 0..n}

\* The value the HTML parser gives the attribute in `<a href="${link}" ...>`:
\* a double-quoted attribute value ends at the first double quote.
HrefOf(link) ==
    LET quotes == {i \in 1..Len(link) : link[i] = Quote}
        stop == IF quotes = {} THEN Len(link) + 1
                ELSE CHOOSE i \in quotes : \A j \in quotes : i <= j
    IN SubSeq(link, 1, stop - 1)

\* the three text nodes HeroSection.updateUserInfo looks up
NodeNames == {"name", "tagline", "summary"}

\* a text node of the hero: in the document or not, and its textContent (a
\* sequence of pieces of text)
Node(present, text) == [present |-> present, text |-> text]
MarkupText == <<"markup">>

\* a .skill-tag element: its textContent, the click listeners attached to it,
\* and whether the served markup held it
Tag(initial, text) == [initial |-> initial, text |-> text, click |-> 0]

\* a document without hero text nodes and skill tags, the pointer outside
PlainDocument ==
    /\ heroNodes = [f \in NodeNames |-> Node(FALSE, MarkupText)]
    /\ skillsGridPresent = TRUE
    /\ skillTags = <<>>
    /\ pointer = 0

\* Elements fadeIn is applied to: <<n, "root", 0>> is the root of section n,
\* <<"projects", "items", i>> the i-th .project-card, <<"skills", "items", i>>
\* the i-th .skill-tag; NoElement stands for null.
Elements ==
    {<<n, "root", 0>> : n \in Sections}
        \cup {<<"projects", "items", i>> : i \in 1..MaxCards}
        \cup {<<"skills", "items", i>> : i \in 1..MaxTags}
NoElement == <<"none", "none", 0>>

\* element.style before any fadeIn; starts and settles count the assignments
\* of the starting and of the visible style
NoStyle == [opacity |-> "", transform |-> "", starts |-> 0, settles |-> 0]

\* no observer notified, no fade-in scheduled
AnimIdle ==
    /\ unobserved = {}
    /\ cbRuns = EmptyBag
    /\ fades = EmptyBag
    /\ styles = [el \in Elements |-> NoStyle]

\* no click, change event or API call yet
NoClick ==
    [ card |-> 0, href |-> NoHref, wired |-> FALSE, section |-> 0, anchor |-> 0,
      smooth |-> FALSE, selector |-> NoHref, offset |-> -1, cfgOffset |-> -1 ]
NoEvent == [kind |-> "none"]

\* the selector a[href^="#"]
IsInPageAnchor(c) == c.hasLink /\ c.href # NoHref /\ Len(c.href) > 0 /\ c.href[1] = "#"

\* ---------------------------------------------------------------- sections
NoSection ==
    [ constructed |-> FALSE, element |-> FALSE, isInitialized |-> FALSE,
      listenerSetups |-> 0, animSetups |-> 0, observing |-> FALSE, threw |-> FALSE,
      projectCards |-> 0, skillTags |-> 0 ]

\* BaseSection constructor and the subclasses' constructors: every lookup goes
\* through DOMUtils.querySelector / querySelectorAll, which return null / [] and
\* never throw.  projectCards is the length of the static NodeList of
\* .project-card elements taken at construction (the cards 1..projectCards),
\* skillTags that of the .skill-tag elements.
NewSection(n) ==
    [ constructed |-> TRUE, element |-> hasRoot[n], isInitialized |-> FALSE,
      listenerSetups |-> 0, animSetups |-> 0, observing |-> FALSE, threw |-> FALSE,
      projectCards |-> IF n = "projects" THEN Len(cards) ELSE 0,
      skillTags |-> IF n = "skills" THEN Len(skillTags) ELSE 0 ]

\* AnimationUtils.observeElements called by setupAnimations on '#<sectionId>',
\* which matches the root element: `new IntersectionObserver` raises a
\* ReferenceError where the constructor does not exist.
ObserveThrows == ~ioDefined

\* faulty variant: the isInitialized test is missing
InitReturnsEarlyNoFlag(s) == ~s.element

\* faulty variant: the element test is missing
InitReturnsEarlyNoElement(s) == s.isInitialized

\* BaseSection.init: the early return
InitReturnsEarly(s) == ~s.element \/ s.isInitialized

\* BaseSection.init on controller s: the controller afterwards, whether
\* setupEventListeners ran, and whether the call threw (in setupAnimations).
SectionInit(s) ==
    IF InitReturnsEarly(s)
    THEN [sec |-> s, ran |-> FALSE, threw |-> FALSE]
    ELSE LET s1 == [s EXCEPT !.listenerSetups = @ + 1, !.animSetups = @ + 1]
             anim == AreAnimationsEnabled(config, mqMatches)
         IN IF anim /\ ObserveThrows
            THEN [sec |-> [s1 EXCEPT !.threw = TRUE], ran |-> TRUE, threw |-> TRUE]
            ELSE [sec |-> [s1 EXCEPT !.isInitialized = TRUE, !.observing = anim],
                  ran |-> TRUE, threw |-> FALSE]

\* ProjectsSection.setupEventListeners over this.projectCards (cards 1..k)
WireCards(cs, k) ==
    [i \in 1..Len(cs) |->
        IF i <= k
        THEN [cs[i] EXCEPT !.enter = @ + 1, !.leave = @ + 1,
                           !.click = IF cs[i].hasLink THEN @ + 1 ELSE @]
        ELSE cs[i]]

\* SkillsSection.setupEventListeners over this.skillTags (tags 1..k)
WireTags(ts, k) ==
    [i \in 1..Len(ts) |-> IF i <= k THEN [ts[i] EXCEPT !.click = @ + 1] ELSE ts[i]]

\* SkillsSection.setupSkillTag: the listener given to an added tag
SetupSkillTag(t) == [t EXCEPT !.click = @ + 1]

\* ProjectsSection.setupProjectCard: the listeners given to an added card
SetupProjectCard(c) == [c EXCEPT !.enter = @ + 1, !.leave = @ + 1]

\* ProjectsSection.handleCardHover
HandleCardHover(c, isHovering) ==
    IF ~AreAnimationsEnabled(config, mqMatches) THEN c
    ELSE [c EXCEPT !.transform = IF isHovering THEN HoverTransform ELSE RestTransform]

\* faulty variant: every href starting with '#' is taken for the placeholder
ClickPreventsAnchors(href) == href # NoHref /\ Len(href) > 0 /\ href[1] = "#"

\* ProjectsSection.handleProjectClick: whether it calls event.preventDefault()
\* (event.target is the link; getAttribute gives null without the attribute)
ClickPrevents(href) == href = <<"#">>

\* ------------------------------------------------------------- scheduling
\* A task (an event handler, a timer) starts only when no init() continuation
\* is running or queued as a microtask; continuations parked on
\* DOMContentLoaded do not hold tasks back.
TaskAllowed == pc = "idle" /\ (waiting = 0 \/ readyState = "loading")

\* Synchronous calls of the page's scripts: not between two continuations,
\* which run back to back once the first has started.
SyncAllowed == pc = "idle" /\ (waiting = 0 \/ run = 0)

\* debounce's closure before its first call: `let timeout;`
DebounceIdle ==
    /\ debTimeout = -1
    /\ debArgs = 0
    /\ debLog = [calls |-> 0, fires |-> 0, oneBurst |-> TRUE, sinceCall |-> 0,
                 firedArgs |-> 0, firedCalls |-> 0, firedAfter |-> 0]

\* throttle's closure before its first call: `let inThrottle;`
ThrottleIdle ==
    /\ inThrottle = FALSE
    /\ thrTimeout = -1
    /\ thrLog = [events |-> 0, invoked |-> 0, dropped |-> 0, sinceInvoke |-> 0,
                 gap |-> -1, lastInThrottle |-> FALSE, lastSince |-> -1,
                 lastRan |-> FALSE, handledPos |-> -1, before |-> FALSE]

\* no listener called yet, an unscrolled page without a header
TimersIdle ==
    /\ DebounceIdle
    /\ ThrottleIdle
    /\ scrollY = 0
    /\ headerPresent = FALSE
    /\ headerScrolled = FALSE

\* ------------------------------------------------------------ PortfolioApp
\* the state the module scripts leave before app.init() is first called
Boot ==
    /\ config = InitialConfig
    /\ isInitialized = FALSE
    /\ sections = [n \in Sections |-> 0]
    /\ waiting = 0
    /\ pc = "idle"
    /\ run = 0
    /\ inst = [r \in 1..MaxInitCalls |-> [n \in Sections |-> NoSection]]
    /\ resizeListeners = 0
    /\ scrollListeners = 0
    /\ motionListeners = 0
    /\ initCalls = 0
    /\ sectionInitCalls = 0
    /\ lastInitOn = "none"
    /\ lastClick = NoClick
    /\ scrollSetups = <<>>
    /\ lastEvent = NoEvent
    /\ AnimIdle
    /\ TimersIdle

\* Any document and host: each section root present or not, with or without
\* IntersectionObserver, reduced motion requested or not.
Init ==
    /\ readyState \in {"loading", "ready"}
    /\ hasRoot \in [Sections -> BOOLEAN]
    /\ ioDefined \in BOOLEAN
    /\ mqMatches \in BOOLEAN
    /\ gridPresent = TRUE
    /\ cards \in SeqsUpTo(MarkupCards, MaxInitialCards)
    /\ PlainDocument
    /\ Boot

\* PortfolioApp.init up to its await: the guard, then waitForDOM's promise
InitCall ==
    /\ SyncAllowed
    /\ initCalls < MaxInitCalls
    /\ initCalls' = initCalls + 1
    /\ waiting' = IF isInitialized THEN waiting ELSE waiting + 1
    /\ UNCHANGED <<envVars, mqMatches, cards, config, isInitialized, sections, pc,
                   run, inst, resizeListeners, scrollListeners, motionListeners,
                   sectionInitCalls, lastInitOn, lastClick, timerVars, pageVars>>

\* the document leaves the loading phase; waitForDOM's listeners resolve
DOMContentLoaded ==
    /\ pc = "idle"
    /\ readyState = "loading"
    /\ readyState' = "ready"
    /\ UNCHANGED <<hasRoot, ioDefined, gridPresent, mqMatches, cards, config,
                   appVars, callVars, lastClick, timerVars, pageVars>>

\* PortfolioApp.init resumes after the await
Resume ==
    /\ pc = "idle"
    /\ readyState = "ready"
    /\ waiting > 0
    /\ waiting' = waiting - 1
    /\ run' = run + 1
    /\ pc' = "hero"
    /\ UNCHANGED <<envVars, mqMatches, cards, config, isInitialized, sections, inst,
                   resizeListeners, scrollListeners, motionListeners, callVars,
                   lastClick, timerVars, pageVars>>

\* faulty variant: the sections array lists skills before projects
NextSectionSkillsFirst(n) ==
    CASE n = "hero" -> "skills"
      [] n = "skills" -> "projects"
      [] n = "projects" -> "global"

\* PortfolioApp.initializeSections: the order of the sections array
NextSection(n) ==
    CASE n = "hero" -> "projects"
      [] n = "projects" -> "skills"
      [] n = "skills" -> "global"

\* faulty variant: no try/catch around a section, so a throw reaches init's
\* catch and ends the call
AfterSectionUncaught(n, threw) == IF threw THEN "idle" ELSE NextSection(n)

\* PortfolioApp.initializeSections: where control goes after section n; the
\* try/catch inside the forEach callback swallows what the section threw.
AfterSection(n, threw) == NextSection(n)

\* PortfolioApp.initializeSections, the forEach callback for section n
InitializeSection(n) ==
    /\ pc = n
    /\ LET s0 == NewSection(n)
           r == SectionInit(s0)
       IN /\ inst' = [inst EXCEPT ![run][n] = r.sec]
          /\ cards' = IF n = "projects" /\ r.ran
                      THEN WireCards(cards, s0.projectCards) ELSE cards
          /\ skillTags' = IF n = "skills" /\ r.ran
                          THEN WireTags(skillTags, s0.skillTags) ELSE skillTags
          /\ sections' = IF r.threw THEN sections ELSE [sections EXCEPT ![n] = run]
          /\ pc' = AfterSection(n, r.threw)
    /\ UNCHANGED <<envVars, mqMatches, config, isInitialized, waiting, run,
                   resizeListeners, scrollListeners, motionListeners, callVars,
                   lastClick, timerVars, heroNodes, skillsGridPresent, pointer,
                   logVars, animVars>>

\* PortfolioApp.setupGlobalEventListeners
SetupGlobalEventListeners ==
    /\ pc = "global"
    /\ resizeListeners' = resizeListeners + 1
    /\ scrollListeners' = scrollListeners + 1
    /\ motionListeners' = motionListeners + 1
    /\ pc' = "scroll"
    /\ UNCHANGED <<envVars, mqMatches, cards, config, isInitialized, sections,
                   waiting, run, inst, callVars, lastClick, timerVars, pageVars>>

\* faulty variant: the handlers are attached whatever scroll.smooth holds
WiresSmoothScrollAlways(c) == TRUE

\* PortfolioApp.setupScrollBehavior: `if (portfolioConfig.scroll.smooth)`
WiresSmoothScroll(c) == c.scroll.smooth

\* the selector the click handler passes to smoothScrollTo:
\* `#${link.getAttribute('href').substring(1)}`
SmoothScrollSelector(href) == <<"#">> \o SubSeq(href, 2, Len(href))

\* PortfolioApp.setupScrollBehavior
SetupScrollBehavior ==
    /\ pc = "scroll"
    /\ scrollSetups' = Append(scrollSetups, config.scroll.smooth)
    /\ cards' = IF WiresSmoothScroll(config)
                THEN [i \in 1..Len(cards) |->
                        IF IsInPageAnchor(cards[i])
                        THEN [cards[i] EXCEPT !.anchor = @ + 1] ELSE cards[i]]
                ELSE cards
    /\ pc' = "flag"
    /\ UNCHANGED <<envVars, mqMatches, config, isInitialized, sections, waiting, run,
                   inst, resizeListeners, scrollListeners, motionListeners, callVars,
                   lastClick, timerVars, domVars, lastEvent, animVars>>

\* PortfolioApp.init: this.isInitialized = true, and the call returns
SetInitialized ==
    /\ pc = "flag"
    /\ isInitialized' = TRUE
    /\ pc' = "idle"
    /\ UNCHANGED <<envVars, mqMatches, cards, config, sections, waiting, run, inst,
                   resizeListeners, scrollListeners, motionListeners, callVars,
                   lastClick, timerVars, pageVars>>

\* PortfolioApp.getSection: `this.sections.get(sectionName) || null`, the
\* registered controller, 0 for null
GetSection(name) == IF name \in DOMAIN sections THEN sections[name] ELSE 0

\* init() called again on a registered controller (app.getSection(n).init())
SectionInitCall(n) ==
    /\ SyncAllowed
    /\ sectionInitCalls < MaxSectionInits
    /\ GetSection(n) # 0
    /\ sectionInitCalls' = sectionInitCalls + 1
    /\ lastInitOn' = n
    /\ LET r == SectionInit(inst[GetSection(n)][n])
       IN /\ inst' = [inst EXCEPT ![GetSection(n)][n] = r.sec]
          /\ cards' = IF n = "projects" /\ r.ran
                      THEN WireCards(cards, r.sec.projectCards) ELSE cards
          /\ skillTags' = IF n = "skills" /\ r.ran
                          THEN WireTags(skillTags, r.sec.skillTags) ELSE skillTags
    /\ UNCHANGED <<envVars, mqMatches, config, isInitialized, sections, waiting, pc,
                   run, resizeListeners, scrollListeners, motionListeners, initCalls,
                   lastClick, timerVars, heroNodes, skillsGridPresent, pointer,
                   logVars, animVars>>

\* PortfolioApp.handleMotionPreferenceChange
HandleMotionPreferenceChange(c, prefersReducedMotion) ==
    UpdateAnimationConfig(c, [enabled |-> ~prefersReducedMotion])

\* faulty variant: a change to reduced motion drops the observers' targets
\* and the pending fade-ins
MotionStepCancelling ==
    /\ TaskAllowed
    /\ mqMatches' = ~mqMatches
    /\ config' = IF motionListeners > 0
                 THEN HandleMotionPreferenceChange(config, mqMatches')
                 ELSE config
    /\ unobserved' = IF mqMatches' THEN unobserved \cup DOMAIN cbRuns ELSE unobserved
    /\ fades' = IF mqMatches' THEN EmptyBag ELSE fades
    /\ UNCHANGED <<envVars, cards, appVars, callVars, lastClick, timerVars, domVars,
                   scrollSetups, cbRuns, styles>>

\* The reduced-motion preference changes; every 'change' listener wired by
\* setupGlobalEventListeners runs handleMotionPreferenceChange(mediaQuery.matches).
MotionStep ==
    /\ TaskAllowed
    /\ mqMatches' = ~mqMatches
    /\ config' = IF motionListeners > 0
                 THEN HandleMotionPreferenceChange(config, mqMatches')
                 ELSE config
    /\ UNCHANGED <<envVars, cards, appVars, callVars, lastClick, timerVars, domVars,
                   scrollSetups, animVars>>

MotionChange == MotionStep /\ UNCHANGED lastEvent

\* the same event, with the config before and after it kept in lastEvent
MotionChangeLogged ==
    /\ MotionStep
    /\ lastEvent' = [ kind |-> "motion", handled |-> motionListeners > 0,
                      matches |-> mqMatches', before |-> config, after |-> config' ]

\* partial records passed to updateAnimationConfig
PartialConfigs == { [enabled |-> TRUE], [enabled |-> FALSE], [duration |-> 500] }

\* portfolioConfig.updateAnimationConfig(newConfig) called by another script
UpdateConfigCall(newConfig) ==
    /\ SyncAllowed
    /\ config' = UpdateAnimationConfig(config, newConfig)
    /\ UNCHANGED <<envVars, mqMatches, cards, appVars, callVars, lastClick, timerVars, pageVars>>

\* values another script assigns to portfolioConfig.scroll
ScrollSettings ==
    { [smooth |-> TRUE, offset |-> 80], [smooth |-> FALSE, offset |-> 80],
      [smooth |-> TRUE, offset |-> 0] }

\* portfolioConfig.scroll = s, written by another script
SetScroll(s) ==
    /\ SyncAllowed
    /\ config.scroll # s
    /\ config' = [config EXCEPT !.scroll = s]
    /\ UNCHANGED <<envVars, mqMatches, cards, appVars, callVars, lastClick, timerVars,
                   pageVars>>

\* f applied k times
RECURSIVE Times(_, _, _)
Times(k, c, isHovering) ==
    IF k = 0 THEN c ELSE Times(k - 1, HandleCardHover(c, isHovering), isHovering)

\* The pointer moves onto card i, coming from outside the cards: mouseenter on
\* card i, and each mouseenter listener calls handleCardHover(card, true).
MouseEnter(i) ==
    /\ TaskAllowed
    /\ i \in 1..Len(cards)
    /\ pointer = 0
    /\ pointer' = i
    /\ cards' = [cards EXCEPT ![i] = Times(cards[i].enter, cards[i], TRUE)]
    /\ UNCHANGED <<envVars, mqMatches, config, appVars, callVars, lastClick, timerVars,
                   heroNodes, skillsGridPresent, skillTags, logVars, animVars>>

\* The pointer leaves card i: mouseleave on card i, and each mouseleave
\* listener calls handleCardHover(card, false).
MouseLeave(i) ==
    /\ TaskAllowed
    /\ i \in 1..Len(cards)
    /\ pointer = i
    /\ pointer' = 0
    /\ cards' = [cards EXCEPT ![i] = Times(cards[i].leave, cards[i], FALSE)]
    /\ UNCHANGED <<envVars, mqMatches, config, appVars, callVars, lastClick, timerVars,
                   heroNodes, skillsGridPresent, skillTags, logVars, animVars>>

\* A click on the .project-link of card i.  section: the preventDefault calls
\* made by handleProjectClick (one listener each); anchor: those made by the
\* smooth-scroll listeners of setupScrollBehavior, each followed by
\* smoothScrollTo(selector, offset); wired: a ProjectsSection had run
\* setupEventListeners before the click; smooth: init() had returned, every
\* setupScrollBehavior run had found scroll.smooth set and it is set at the
\* click; cfgOffset: scroll.offset at the click.
ClickLink(i) ==
    /\ TaskAllowed
    /\ i \in 1..Len(cards)
    /\ cards[i].hasLink
    /\ lastClick' = [ card |-> i, href |-> cards[i].href,
                      wired |-> \E r \in 1..MaxInitCalls :
                                    inst[r]["projects"].listenerSetups > 0,
                      section |-> IF ClickPrevents(cards[i].href)
                                  THEN cards[i].click ELSE 0,
                      anchor |-> cards[i].anchor,
                      smooth |-> /\ isInitialized /\ config.scroll.smooth
                                 /\ \A k \in 1..Len(scrollSetups) : scrollSetups[k],
                      selector |-> IF cards[i].anchor > 0
                                   THEN SmoothScrollSelector(cards[i].href) ELSE NoHref,
                      offset |-> IF cards[i].anchor > 0 THEN config.scroll.offset ELSE -1,
                      cfgOffset |-> config.scroll.offset ]
    /\ UNCHANGED <<envVars, mqMatches, cards, config, appVars, callVars, timerVars, pageVars>>

\* project data passed to addProject
ProjectData == { [title |-> "T", description |-> "D", link |-> l] : l \in Links }

\* ProjectsSection.addProject: the card appended to .projects-grid
NewProjectCard(projectData) ==
    SetupProjectCard(Card(FALSE, TRUE, projectData.link, HrefOf(projectData.link)))

\* PortfolioApp.addProject -> ProjectsSection.addProject
AddProject(projectData) ==
    /\ SyncAllowed
    /\ Len(cards) < MaxCards
    /\ GetSection("projects") # 0
    /\ gridPresent
    /\ cards' = Append(cards, NewProjectCard(projectData))
    /\ UNCHANGED <<envVars, mqMatches, config, appVars, callVars, lastClick, timerVars, pageVars>>

Next ==
    \/ InitCall
    \/ DOMContentLoaded
    \/ Resume
    \/ \E n \in Sections : InitializeSection(n)
    \/ SetupGlobalEventListeners
    \/ SetupScrollBehavior
    \/ SetInitialized
    \/ \E n \in Sections : SectionInitCall(n)
    \/ MotionChange
    \/ \E c \in PartialConfigs : UpdateConfigCall(c)

Spec == Init /\ [][Next]_vars

\* ------------------------------------------------- the projects section in use
\* Documents past their loading phase whose hero and skills roots are present;
\* the projects root, the grid and the cards vary.
InitProjects ==
    /\ readyState = "ready"
    /\ hasRoot \in {f \in [Sections -> BOOLEAN] : f["hero"] /\ f["skills"]}
    /\ ioDefined \in BOOLEAN
    /\ mqMatches \in BOOLEAN
    /\ gridPresent \in BOOLEAN
    /\ cards \in SeqsUpTo(MarkupCards, MaxInitialCards)
    /\ PlainDocument
    /\ Boot

NextProjects ==
    \/ InitCall
    \/ Resume
    \/ \E n \in Sections : InitializeSection(n)
    \/ SetupGlobalEventListeners
    \/ SetupScrollBehavior
    \/ SetInitialized
    \/ \E s \in ScrollSettings : SetScroll(s)
    \/ \E i \in 1..MaxCards : ClickLink(i)
    \/ \E d \in ProjectData : AddProject(d)

SpecProjects == InitProjects /\ [][NextProjects]_vars

\* ------------------------------------------------------- the public API
\* null passed for an object
Null == [null |-> TRUE]
IsNull(d) == "null" \in DOMAIN d

\* the value of a property the object does not have
Undefined == "undefined"
Field(u, f) == IF f \in DOMAIN u THEN u[f] ELSE Undefined

\* JavaScript truthiness of a string or undefined
Truthy(v) == v # Undefined /\ v # ""

\* faulty variant: the field is not tested
ProvidedAlways(node, v) == node.present

\* HeroSection.updateUserInfo: `if (element && userInfo.field)`
Provided(node, v) == node.present /\ Truthy(v)

\* the text HeroSection.updateUserInfo assigns to the node of field f
Greeting == "Olá, eu sou "
TextFor(f, v) == IF f = "name" THEN <<Greeting, v>> ELSE <<v>>

\* HeroSection.updateUserInfo
UpdateUserInfo(nodes, userInfo) ==
    [f \in NodeNames |->
        IF Provided(nodes[f], Field(userInfo, f))
        THEN [nodes[f] EXCEPT !.text = TextFor(f, Field(userInfo, f))]
        ELSE nodes[f]]

\* ProjectsSection.addProject: without the grid it returns; with null for
\* projectData the template literal throws before appendChild
SectionAddProject(cs, projectData) ==
    IF ~gridPresent \/ IsNull(projectData) THEN cs
    ELSE Append(cs, NewProjectCard(projectData))

\* SkillsSection.addSkill
SectionAddSkill(ts, skillName) ==
    IF ~skillsGridPresent THEN ts
    ELSE Append(ts, SetupSkillTag(Tag(FALSE, skillName)))

\* faulty variant: the argument is not tested
ForwardsAnyArgument(section, truthy) == section # 0

\* PortfolioApp.updateUserData / addProject / addSkill: `if (section && argument)`
Forwards(section, truthy) == section # 0 /\ truthy

\* the nodes the API can change
Dom == [hero |-> heroNodes, cards |-> cards, tags |-> skillTags]

\* arguments the page's scripts pass
UserDatas ==
    { Null, [name |-> "X"], [name |-> "", tagline |-> "T"], [summary |-> "S"],
      [name |-> "X", tagline |-> "T", summary |-> "S"] }
ApiProjectData == {Null} \cup {d \in ProjectData : d.link = <<"h">>}
SkillNames == {"", "JS"}

\* PortfolioApp.updateUserData
UpdateUserData(userData) ==
    /\ SyncAllowed
    /\ LET hero == GetSection("hero")
           fwd == Forwards(hero, ~IsNull(userData))
       IN /\ heroNodes' = IF fwd THEN UpdateUserInfo(heroNodes, userData) ELSE heroNodes
          /\ lastEvent' = [ kind |-> "updateUserData", registered |-> hero # 0,
                            truthy |-> ~IsNull(userData), forwarded |-> fwd,
                            arg |-> userData, before |-> Dom,
                            after |-> [Dom EXCEPT !.hero = heroNodes'] ]
    /\ UNCHANGED <<envVars, mqMatches, cards, config, appVars, callVars, lastClick,
                   timerVars, skillsGridPresent, skillTags, pointer, scrollSetups, animVars>>

\* PortfolioApp.addProject, with any argument and in any state of the app
AddProjectCall(projectData) ==
    /\ SyncAllowed
    /\ Len(cards) < MaxCards
    /\ LET projects == GetSection("projects")
           fwd == Forwards(projects, ~IsNull(projectData))
       IN /\ cards' = IF fwd THEN SectionAddProject(cards, projectData) ELSE cards
          /\ lastEvent' = [ kind |-> "addProject", registered |-> projects # 0,
                            truthy |-> ~IsNull(projectData), forwarded |-> fwd,
                            arg |-> projectData, before |-> Dom,
                            after |-> [Dom EXCEPT !.cards = cards'] ]
    /\ UNCHANGED <<envVars, mqMatches, config, appVars, callVars, lastClick, timerVars,
                   domVars, scrollSetups, animVars>>

\* PortfolioApp.addSkill
AddSkillCall(skillName) ==
    /\ SyncAllowed
    /\ Len(skillTags) < MaxTags
    /\ LET skills == GetSection("skills")
           fwd == Forwards(skills, Truthy(skillName))
       IN /\ skillTags' = IF fwd THEN SectionAddSkill(skillTags, skillName)
                          ELSE skillTags
          /\ lastEvent' = [ kind |-> "addSkill", registered |-> skills # 0,
                            truthy |-> Truthy(skillName), forwarded |-> fwd,
                            arg |-> [name |-> skillName], before |-> Dom,
                            after |-> [Dom EXCEPT !.tags = skillTags'] ]
    /\ UNCHANGED <<envVars, mqMatches, cards, config, appVars, callVars, lastClick,
                   timerVars, heroNodes, skillsGridPresent, pointer, scrollSetups, animVars>>

\* Documents with all section roots or none, with or without the grids and
\* the hero's text nodes.
InitApi ==
    /\ readyState \in {"loading", "ready"}
    /\ hasRoot \in {[n \in Sections |-> b] : b \in BOOLEAN}
    /\ ioDefined \in BOOLEAN
    /\ mqMatches = FALSE
    /\ gridPresent \in BOOLEAN
    /\ cards = <<>>
    /\ heroNodes \in [NodeNames -> {Node(b, MarkupText) : b \in BOOLEAN}]
    /\ skillsGridPresent \in BOOLEAN
    /\ skillTags = <<>>
    /\ pointer = 0
    /\ Boot

NextApi ==
    \/ InitCall
    \/ DOMContentLoaded
    \/ Resume
    \/ \E n \in Sections : InitializeSection(n)
    \/ SetupGlobalEventListeners
    \/ SetupScrollBehavior
    \/ SetInitialized
    \/ \E d \in UserDatas : UpdateUserData(d)
    \/ \E d \in ApiProjectData : AddProjectCall(d)
    \/ \E n \in SkillNames : AddSkillCall(n)

SpecApi == InitApi /\ [][NextApi]_vars

\* --------------------------------------------- the config under change events
\* A document with the three section roots and no cards, on a host with
\* IntersectionObserver.
InitConfig ==
    /\ readyState \in {"loading", "ready"}
    /\ hasRoot = [n \in Sections |-> TRUE]
    /\ ioDefined = TRUE
    /\ mqMatches \in BOOLEAN
    /\ gridPresent = TRUE
    /\ cards = <<>>
    /\ PlainDocument
    /\ Boot

NextConfig ==
    \/ InitCall
    \/ DOMContentLoaded
    \/ Resume
    \/ \E n \in Sections : InitializeSection(n)
    \/ SetupGlobalEventListeners
    \/ SetupScrollBehavior
    \/ SetInitialized
    \/ MotionChangeLogged
    \/ \E c \in PartialConfigs : UpdateConfigCall(c)
    \/ \E c \in ScrollSettings : SetScroll(c)

SpecConfig == InitConfig /\ [][NextConfig]_vars

\* --------------------------------------------------- the pointer over the cards
NextHover ==
    \/ InitCall
    \/ Resume
    \/ \E n \in Sections : InitializeSection(n)
    \/ SetupGlobalEventListeners
    \/ SetupScrollBehavior
    \/ SetInitialized
    \/ MotionChange
    \/ \E i \in 1..MaxCards : MouseEnter(i)
    \/ \E i \in 1..MaxCards : MouseLeave(i)
    \/ \E d \in ProjectData : AddProject(d)

SpecHover == InitProjects /\ [][NextHover]_vars

\* ---------------------------------------------------- debounce and throttle
Min(a, b) == IF a <= b THEN a ELSE b
Max(a, b) == IF a >= b THEN a ELSE b

\* The page after one app.init() on a loaded document without section roots:
\* the three controllers are registered, one listener of each kind is wired.
Started ==
    /\ readyState = "ready"
    /\ hasRoot = [n \in Sections |-> FALSE]
    /\ ioDefined = TRUE
    /\ mqMatches = FALSE
    /\ gridPresent = TRUE
    /\ cards = <<>>
    /\ config = InitialConfig
    /\ isInitialized = TRUE
    /\ sections = [n \in Sections |-> 1]
    /\ waiting = 0
    /\ pc = "idle"
    /\ run = 1
    /\ inst = [r \in 1..MaxInitCalls |-> [n \in Sections |->
                 IF r = 1 THEN [NoSection EXCEPT !.constructed = TRUE] ELSE NoSection]]
    /\ resizeListeners = 1
    /\ scrollListeners = 1
    /\ motionListeners = 1
    /\ initCalls = 1
    /\ sectionInitCalls = 0
    /\ lastInitOn = "none"
    /\ lastClick = NoClick
    /\ PlainDocument
    /\ scrollSetups = <<TRUE>>
    /\ lastEvent = NoEvent
    /\ AnimIdle

mainVars == <<envVars, mqMatches, cards, config, appVars, callVars, lastClick,
              pageVars>>

\* faulty variant: a pending timer is kept instead of being replaced
DebounceNoRestart(timeout, wait) == IF timeout >= 0 THEN timeout ELSE wait

\* debounce's executedFunction: clearTimeout(timeout); timeout = setTimeout(later, wait).
\* The delay of the one timer pending afterwards.
DebounceRestart(timeout, wait) == wait

\* A resize event reaches the debounced listener; the event is its argument
\* (the k-th event is written k).
ResizeEvent ==
    /\ TaskAllowed
    /\ resizeListeners > 0
    /\ debLog.calls < MaxResizeEvents
    /\ debTimeout' = DebounceRestart(debTimeout, ResizeWait)
    /\ debArgs' = debLog.calls + 1
    /\ debLog' = [debLog EXCEPT
                    !.calls = @ + 1,
                    !.oneBurst = @ /\ (debLog.calls = 0 \/ debLog.sinceCall < ResizeWait),
                    !.sinceCall = 0]
    /\ UNCHANGED <<mainVars, thrVars>>

\* debounce's `later`, run by the timer: clearTimeout(timeout); func(...args)
Later ==
    /\ TaskAllowed
    /\ debTimeout = 0
    /\ debTimeout' = -1
    /\ debLog' = [debLog EXCEPT !.fires = @ + 1, !.firedArgs = debArgs,
                                !.firedCalls = debLog.calls,
                                !.firedAfter = debLog.sinceCall]
    /\ UNCHANGED <<mainVars, debArgs, thrVars>>

\* ScrollUtils.getScrollPosition: window.pageYOffset || documentElement.scrollTop
GetScrollPosition(pageYOffset, scrollTop) ==
    IF pageYOffset # 0 THEN pageYOffset ELSE scrollTop

\* faulty variant: >= instead of >
HandleScrollInclusive(scrolled) ==
    IF headerPresent THEN GetScrollPosition(scrollY', scrollY') >= ScrollThreshold
    ELSE scrolled

\* PortfolioApp.handleScroll at the new scroll position: whether the header
\* has the class 'scrolled' afterwards
HandleScroll(scrolled) ==
    IF headerPresent THEN GetScrollPosition(scrollY', scrollY') > ScrollThreshold
    ELSE scrolled

\* faulty variant: inThrottle is not consulted
ThrottlePassesAlways(flag) == TRUE

\* throttle's returned function: `if (!inThrottle)`
ThrottlePasses(flag) == ~flag

\* The page is scrolled to p and the scroll event reaches the throttled
\* listener: func.apply, inThrottle = true, setTimeout(..., limit), or nothing.
ScrollEvent(p) ==
    /\ TaskAllowed
    /\ scrollListeners > 0
    /\ thrLog.events < MaxScrollEvents
    /\ scrollY' = p
    /\ IF ThrottlePasses(inThrottle)
       THEN /\ headerScrolled' = HandleScroll(headerScrolled)
            /\ inThrottle' = TRUE
            /\ thrTimeout' = ScrollLimit
            /\ thrLog' = [thrLog EXCEPT
                            !.events = @ + 1, !.invoked = @ + 1,
                            !.gap = IF thrLog.invoked = 0 THEN -1 ELSE thrLog.sinceInvoke,
                            !.lastSince = IF thrLog.invoked = 0 THEN -1
                                          ELSE thrLog.sinceInvoke,
                            !.lastInThrottle = inThrottle,
                            !.sinceInvoke = 0, !.lastRan = TRUE, !.handledPos = p,
                            !.before = headerScrolled]
       ELSE /\ thrLog' = [thrLog EXCEPT
                            !.events = @ + 1, !.dropped = @ + 1,
                            !.lastSince = thrLog.sinceInvoke,
                            !.lastInThrottle = inThrottle,
                            !.lastRan = FALSE]
            /\ UNCHANGED <<headerScrolled, inThrottle, thrTimeout>>
    /\ UNCHANGED <<mainVars, debVars, headerPresent>>

\* throttle's timer: inThrottle = false
ThrottleReset ==
    /\ TaskAllowed
    /\ thrTimeout = 0
    /\ inThrottle' = FALSE
    /\ thrTimeout' = -1
    /\ UNCHANGED <<mainVars, debVars, thrLog, scrollY, headerPresent, headerScrolled>>

\* d ms pass.  A timer becomes due when its delay has run down; the event loop
\* may run it later than that, never earlier.
Tick(d) ==
    /\ TaskAllowed
    /\ debTimeout' = IF debTimeout > 0 THEN Max(0, debTimeout - d) ELSE debTimeout
    /\ thrTimeout' = IF thrTimeout > 0 THEN Max(0, thrTimeout - d) ELSE thrTimeout
    /\ debLog' = [debLog EXCEPT !.sinceCall =
                    IF debLog.calls > 0 THEN Min(ResizeWait, @ + d) ELSE @]
    /\ thrLog' = [thrLog EXCEPT !.sinceInvoke =
                    IF thrLog.invoked > 0 THEN Min(ScrollLimit, @ + d) ELSE @]
    /\ UNCHANGED <<mainVars, debArgs, inThrottle, scrollY, headerPresent,
                   headerScrolled>>

InitResize == Started /\ TimersIdle

NextResize ==
    \/ ResizeEvent
    \/ Later
    \/ \E d \in TickSteps : Tick(d)

SpecResize == InitResize /\ [][NextResize]_vars

InitScroll ==
    /\ Started
    /\ DebounceIdle
    /\ ThrottleIdle
    /\ scrollY \in ScrollPositions
    /\ headerPresent \in BOOLEAN
    /\ headerScrolled \in BOOLEAN

NextScroll ==
    \/ \E p \in ScrollPositions : ScrollEvent(p)
    \/ ThrottleReset
    \/ \E d \in TickSteps : Tick(d)

SpecScroll == InitScroll /\ [][NextScroll]_vars

\* ------------------------------------------------- observers and fade-ins
\* AnimationUtils.fadeIn: `if (!element) return;`
FadeInSchedules(el) == el # NoElement

\* AnimationUtils.fadeIn(element, delay): the timers pending afterwards
FadeIn(fs, el, delay) ==
    IF FadeInSchedules(el)
    THEN fs (+) SetToBag({[el |-> el, delay |-> delay, phase |-> "timer"]})
    ELSE fs

\* BaseSection.setupAnimations, the callback: this.config.animationDelay || 0
RootDelay(n) ==
    IF config.sections[n].animationDelay # 0 THEN config.sections[n].animationDelay
    ELSE 0

\* faulty variant: the section's animationDelay is added to the stagger
ItemDelayWithBase(n, i) ==
    config.sections[n].animationDelay
        + (IF n = "projects" THEN (i - 1) * ProjectStep ELSE (i - 1) * SkillStep)

\* ProjectsSection / SkillsSection.setupAnimations, the callback: the i-th
\* card or tag has index i - 1 in this.projectCards / this.skillTags
ItemDelay(n, i) ==
    IF n = "projects" THEN (i - 1) * ProjectStep ELSE (i - 1) * SkillStep

\* the delay the callback of observer <<r, n, kind>> passes to fadeIn
CallbackDelay(n, kind, i) == IF kind = "root" THEN RootDelay(n) ELSE ItemDelay(n, i)

\* The observers setupAnimations created: controller inst[r][n] observes its
\* root ('#n') and, where the selector matched, its cards or tags.
Matched(r, n, kind) ==
    IF kind = "root" THEN {0}
    ELSE 1..(IF n = "projects" THEN inst[r][n].projectCards ELSE inst[r][n].skillTags)
ObserverExists(r, n, kind) == inst[r][n].observing /\ Matched(r, n, kind) # {}
Observed(r, n, kind) == {i \in Matched(r, n, kind) : <<r, n, kind, i>> \notin unobserved}

\* The entries one call of the observer's callback may get for one target:
\* the entries queued since the last call, while the target was observed.  An
\* entry is queued when the target's isIntersecting changes, so they
\* alternate.  (Entries of other targets in the same call go through the same
\* loop and touch other elements; they are delivered as calls of their own.)
Batches(targets) ==
    { [j \in 1..len |-> [target |-> i, isIntersecting |-> (first <=> (j % 2 = 1))]] :
        i \in targets, first \in BOOLEAN, len \in 1..MaxBatch }

\* observeElements, the observer's callback: entries.forEach(entry => { if
\* (entry.isIntersecting) { callback(entry.target); observer.unobserve(...) } })
RECURSIVE Deliver(_, _, _, _, _)
Deliver(r, n, kind, entries, st) ==
    IF entries = <<>> THEN st
    ELSE LET e == Head(entries)
             key == <<r, n, kind, e.target>>
             st1 == IF e.isIntersecting
                    THEN [ un |-> st.un \cup {key},
                           runs |-> st.runs (+) SetToBag({key}),
                           fades |-> FadeIn(st.fades, <<n, kind, e.target>>,
                                            CallbackDelay(n, kind, e.target)) ]
                    ELSE st
         IN Deliver(r, n, kind, Tail(entries), st1)

\* the observer <<r, n, kind>> notifies: its callback runs with entries
Notify(r, n, kind, entries) ==
    /\ TaskAllowed
    /\ ObserverExists(r, n, kind)
    /\ LET st == Deliver(r, n, kind, entries,
                         [un |-> unobserved, runs |-> cbRuns, fades |-> fades])
       IN /\ unobserved' = st.un
          /\ cbRuns' = st.runs
          /\ fades' = st.fades
          /\ lastEvent' = [ kind |-> "notify",
                            intersecting |-> \E j \in 1..Len(entries) :
                                                entries[j].isIntersecting,
                            ran |-> BagCardinality(st.runs) - BagCardinality(cbRuns) ]
    /\ UNCHANGED <<envVars, mqMatches, cards, config, appVars, callVars, lastClick,
                   timerVars, domVars, scrollSetups, styles>>

\* The page after one app.init() on a loaded document with the roots of
\* projects and skills, k cards and m tags, animations enabled: the
\* controllers are registered, those of projects and skills are initialized
\* and their observers are observing.
StartedAnimated(k, m) ==
    /\ readyState = "ready"
    /\ hasRoot = [n \in Sections |-> n # "hero"]
    /\ ioDefined = TRUE
    /\ mqMatches = FALSE
    /\ gridPresent = TRUE
    /\ cards = [i \in 1..k |->
                  [Card(TRUE, TRUE, <<"h">>, <<"h">>) EXCEPT
                      !.enter = 1, !.leave = 1, !.click = 1]]
    /\ config = InitialConfig
    /\ isInitialized = TRUE
    /\ sections = [n \in Sections |-> 1]
    /\ waiting = 0
    /\ pc = "idle"
    /\ run = 1
    /\ inst = [r \in 1..MaxInitCalls |-> [n \in Sections |->
                 IF r = 1 /\ n = "hero" THEN [NoSection EXCEPT !.constructed = TRUE]
                 ELSE IF r = 1
                 THEN [ constructed |-> TRUE, element |-> TRUE, isInitialized |-> TRUE,
                        listenerSetups |-> 1, animSetups |-> 1, observing |-> TRUE,
                        threw |-> FALSE,
                        projectCards |-> IF n = "projects" THEN k ELSE 0,
                        skillTags |-> IF n = "skills" THEN m ELSE 0 ]
                 ELSE NoSection]]
    /\ resizeListeners = 1
    /\ scrollListeners = 1
    /\ motionListeners = 1
    /\ initCalls = 1
    /\ sectionInitCalls = 0
    /\ lastInitOn = "none"
    /\ lastClick = NoClick
    /\ heroNodes = [f \in NodeNames |-> Node(FALSE, MarkupText)]
    /\ skillsGridPresent = TRUE
    /\ skillTags = [i \in 1..m |-> [Tag(TRUE, "JS") EXCEPT !.click = 1]]
    /\ pointer = 0
    /\ scrollSetups = <<TRUE>>
    /\ lastEvent = NoEvent
    /\ AnimIdle
    /\ TimersIdle

InitAnimate == \E k \in 0..MaxCards, m \in 0..MaxTags : StartedAnimated(k, m)

NextAnimate ==
    \/ \E r \in 1..MaxInitCalls, n \in Sections, kind \in {"root", "items"} :
          \E entries \in Batches(Observed(r, n, kind)) : Notify(r, n, kind, entries)
    \/ MotionChange

SpecAnimate == InitAnimate /\ [][NextAnimate]_vars

\* faulty variant: the timer callback assigns the visible style itself
TimerCallbackStyleVisible(st) ==
    [st EXCEPT !.opacity = "1", !.transform = "translateY(0)", !.settles = @ + 1]

\* AnimationUtils.fadeIn, the timer callback: the starting style
TimerCallbackStyle(st) ==
    [st EXCEPT !.opacity = "0", !.transform = "translateY(20px)", !.starts = @ + 1]

\* AnimationUtils.fadeIn, the animation-frame callback: the visible style
FrameCallbackStyle(st) ==
    [st EXCEPT !.opacity = "1", !.transform = "translateY(0)", !.settles = @ + 1]

\* element.style.transform of a project card is the transform the hover
\* handlers write as well
WithCardTransform(cs, el, t) ==
    IF el[1] = "projects" /\ el[2] = "items" /\ el[3] \in 1..Len(cs)
    THEN [cs EXCEPT ![el[3]].transform = t] ELSE cs

\* the elements of the document, and null
Present ==
    {<<n, "root", 0>> : n \in {m \in Sections : hasRoot[m]}}
        \cup {<<"projects", "items", i>> : i \in 1..Len(cards)}
        \cup {<<"skills", "items", i>> : i \in 1..Len(skillTags)}

\* delays the page's scripts pass to fadeIn
FadeDelays == {0, 100}

FadeCalls == IF lastEvent.kind = "fadeIn" THEN lastEvent.calls ELSE 0

\* AnimationUtils.fadeIn(el, delay) called by a script of the page
FadeInCall(el, delay) ==
    /\ SyncAllowed
    /\ FadeCalls < MaxFadeCalls
    /\ fades' = FadeIn(fades, el, delay)
    /\ lastEvent' = [ kind |-> "fadeIn", el |-> el, calls |-> FadeCalls + 1,
                      scheduled |-> BagCardinality(fades') - BagCardinality(fades) ]
    /\ UNCHANGED <<envVars, mqMatches, cards, config, appVars, callVars, lastClick,
                   timerVars, domVars, scrollSetups, unobserved, cbRuns, styles>>

\* the timer of fade-in f runs: the starting style, and requestAnimationFrame
FadeTimer(f) ==
    /\ TaskAllowed
    /\ f.phase = "timer"
    /\ BagIn(f, fades)
    /\ styles' = [styles EXCEPT ![f.el] = TimerCallbackStyle(@)]
    /\ cards' = WithCardTransform(cards, f.el, styles'[f.el].transform)
    /\ fades' = (fades (-) SetToBag({f})) (+) SetToBag({[f EXCEPT !.phase = "frame"]})
    /\ UNCHANGED <<envVars, mqMatches, config, appVars, callVars, lastClick, timerVars,
                   domVars, logVars, unobserved, cbRuns>>

\* the animation-frame callback of fade-in f runs: the visible style
FadeFrame(f) ==
    /\ TaskAllowed
    /\ f.phase = "frame"
    /\ BagIn(f, fades)
    /\ styles' = [styles EXCEPT ![f.el] = FrameCallbackStyle(@)]
    /\ cards' = WithCardTransform(cards, f.el, styles'[f.el].transform)
    /\ fades' = fades (-) SetToBag({f})
    /\ UNCHANGED <<envVars, mqMatches, config, appVars, callVars, lastClick, timerVars,
                   domVars, logVars, unobserved, cbRuns>>

\* every delay a fade-in of the page can have (no code changes the sections
\* group of the config)
TimerDelays ==
    FadeDelays \cup {InitialConfig.sections[n].animationDelay : n \in Sections}
               \cup {ItemDelay(n, i) : n \in Sections, i \in 1..MaxCards}
               \cup {ItemDelay(n, i) : n \in Sections, i \in 1..MaxTags}

AllFades == [el : Elements, delay : TimerDelays, phase : {"timer", "frame"}]

InitFade == StartedAnimated(1, 0)

NextFade ==
    \/ \E el \in Present \cup {NoElement}, d \in FadeDelays : FadeInCall(el, d)
    \/ \E f \in AllFades : FadeTimer(f)
    \/ \E f \in AllFades : FadeFrame(f)

\* The event loop runs every timer that is due and, while the page is shown,
\* every requested animation frame.
SpecFade ==
    /\ InitFade /\ [][NextFade]_vars
    /\ \A f \in AllFades : WF_vars(FadeTimer(f)) /\ WF_vars(FadeFrame(f))

\* ------------------------------------- animations under preference changes
\* A loaded document with the projects root, its grid and one card; the
\* reduced-motion preference holds or not when the scripts start.
InitMotion ==
    /\ readyState = "ready"
    /\ hasRoot = [n \in Sections |-> n = "projects"]
    /\ ioDefined = TRUE
    /\ mqMatches \in BOOLEAN
    /\ gridPresent = TRUE
    /\ cards = <<Card(TRUE, TRUE, <<"h">>, <<"h">>)>>
    /\ PlainDocument
    /\ Boot

\* the continuations of init() after its await
InitSteps ==
    \/ Resume
    \/ \E n \in Sections : InitializeSection(n)
    \/ SetupGlobalEventListeners
    \/ SetupScrollBehavior
    \/ SetInitialized

\* app.init() is called once, by the module script (main.js:221)
NextMotion ==
    \/ initCalls = 0 /\ InitCall
    \/ InitSteps
    \/ MotionChange
    \/ \E n \in Sections, kind \in {"root", "items"} :
          \E entries \in Batches(Observed(1, n, kind)) : Notify(1, n, kind, entries)
    \/ \E f \in AllFades : FadeTimer(f)
    \/ \E f \in AllFades : FadeFrame(f)

\* what the event loop owes: the continuations of a started init() (they are
\* microtasks), the due timers and the requested animation frames
Callbacks ==
    \/ InitSteps
    \/ \E f \in AllFades : FadeTimer(f)
    \/ \E f \in AllFades : FadeFrame(f)

\* The event loop does not stop while a callback is owed.
SpecMotion == InitMotion /\ [][NextMotion]_vars /\ WF_vars(Callbacks)

\* ================================================================== claims
Runs == 1..MaxInitCalls

\* the continuations that have run to their end
Completed == {r \in Runs : r < run \/ (r = run /\ pc = "idle")}

\* C1: PortfolioApp.init() is idempotent: however many init() calls are made,
\* and whenever, the sections are constructed and initialized once and the
\* resize / scroll / motion listeners and the anchor-link handlers are wired
\* once; every call after the first is a no-op.
C1_InitOnce ==
    /\ run <= 1
    /\ \A n \in Sections : Cardinality({r \in Runs : inst[r][n].constructed}) <= 1
    /\ resizeListeners <= 1 /\ scrollListeners <= 1 /\ motionListeners <= 1
    /\ \A i \in 1..Len(cards) : cards[i].anchor <= 1

\* C2: a section controller whose root element exists runs setupEventListeners
\* and setupAnimations once over any sequence of init() calls: the first call
\* initializes it, a later call changes nothing, and the initialized flag never
\* returns to false.
C2_SetupOnce ==
    \A r \in Runs, n \in Sections :
        LET s == inst[r][n]
        IN (s.constructed /\ s.element) =>
              /\ s.listenerSetups <= 1 /\ s.animSetups <= 1
              /\ s.isInitialized => (s.listenerSetups = 1 /\ s.animSetups = 1)
              /\ (~s.threw /\ (r < run \/ pc # n)) => s.isInitialized

C2_LaterCallNoOp ==
    \A n \in Sections :
        (SectionInitCall(n) /\ inst[GetSection(n)][n].isInitialized)
            => UNCHANGED <<inst, cards>>

C2_FlagStays ==
    \A r \in Runs, n \in Sections :
        (inst[r][n].constructed /\ inst[r][n].isInitialized) => inst'[r][n].isInitialized

C3_MissingRootInert ==
    \A r \in Runs, n \in Sections :
        LET s == inst[r][n]
        IN (s.constructed /\ ~hasRoot[n]) =>
              /\ ~s.element /\ ~s.threw
              /\ ~s.isInitialized
              /\ s.listenerSetups = 0 /\ s.animSetups = 0
              /\ GetSection(n) >= r

\* a controller without a root element got a further init() call
C3_Witness ==
    /\ lastInitOn \in Sections
    /\ ~hasRoot[lastInitOn]
    /\ sectionInitCalls = MaxSectionInits
    /\ GetSection(lastInitOn) # 0
    /\ inst[GetSection(lastInitOn)][lastInitOn].constructed

\* C4: a section that throws while it is constructed or initialized does not
\* stop initializeSections: every section is still constructed and handled, the
\* ones that did not throw are registered, the global listeners and the scroll
\* behaviour are wired afterwards and the app reaches its initialized state;
\* the section that threw is not registered, so getSection gives null for it.
C4_ThrowIsContained ==
    /\ \A r \in Completed :
          /\ \A n \in Sections : inst[r][n].constructed
          /\ isInitialized
          /\ resizeListeners >= r /\ scrollListeners >= r /\ motionListeners >= r
    /\ \A r \in Runs, n \in Sections :
          /\ (inst[r][n].constructed /\ ~inst[r][n].threw) => GetSection(n) >= r
          /\ inst[r][n].threw => GetSection(n) = 0

\* init() has returned after one section threw and another was registered
C4_Witness ==
    /\ pc = "idle" /\ run >= 1 /\ isInitialized
    /\ \E n, m \in Sections :
          /\ inst[run][n].threw /\ GetSection(n) = 0
          /\ GetSection(m) = run
    /\ resizeListeners >= 1 /\ scrollListeners >= 1 /\ motionListeners >= 1

\* C8: areAnimationsEnabled() returns animations.enabled AND NOT reduced-motion
\* in every state of the config, so it is false whenever the reduced-motion
\* media query matches, whatever animations.enabled holds.
C8_AnimationsGate ==
    /\ AreAnimationsEnabled(config, mqMatches) = (config.animations.enabled /\ ~mqMatches)
    /\ mqMatches => (AreAnimationsEnabled(config, mqMatches) = FALSE)

\* reduced motion is requested while the stored flag was set back to true by
\* an updateAnimationConfig call made after the change listener was wired
C8_Witness ==
    /\ mqMatches /\ config.animations.enabled
    /\ motionListeners > 0
    /\ config.animations.duration = 500
    /\ AreAnimationsEnabled(config, mqMatches) = FALSE

\* C9: a project added with addProject({title, description, link}) gives one
\* new card whose link href equals the given link, wired like a card that was
\* present at initialization: the mouseenter / mouseleave transform toggle and
\* the click handler on its project link.
C9_AddedCardWiredAlike ==
    \A i \in 1..Len(cards) :
        ~cards[i].initial =>
            /\ cards[i].hasLink /\ cards[i].href = cards[i].link
            /\ cards[i].enter >= 1 /\ cards[i].leave >= 1
            /\ cards[i].click >= 1

\* C10: on a card that was present when the projects section set up its
\* listeners, a click on a project link whose href is exactly '#' calls
\* preventDefault; the section's click handler calls it for no other href.
C10_PlaceholderClick ==
    /\ (lastClick.card # 0 /\ lastClick.wired /\ cards[lastClick.card].initial
            /\ lastClick.href = <<"#">>) => lastClick.section >= 1
    /\ (lastClick.card # 0 /\ lastClick.href # <<"#">>) => lastClick.section = 0

\* a placeholder link of the markup was clicked after setup and the section's
\* handler prevented the navigation
C10_Witness ==
    /\ lastClick.card # 0 /\ lastClick.wired
    /\ cards[lastClick.card].initial
    /\ lastClick.href = <<"#">>
    /\ lastClick.section >= 1

\* C5: the debounced function invokes func only for the last call of a burst:
\* while every call has come less than wait after the one before, func is
\* not invoked before the burst ends and is invoked once after it; an
\* invocation comes no earlier than wait after the last call and carries that
\* call's arguments.
C5_DebounceLastCallWins ==
    /\ debLog.fires > 0 =>
          /\ debLog.firedAfter >= ResizeWait
          /\ debLog.firedArgs = debLog.firedCalls
    /\ debLog.oneBurst =>
          /\ debLog.fires <= 1
          /\ debTimeout >= 0 => debLog.fires = 0
          /\ (debLog.calls > 0 /\ debTimeout = -1) => debLog.fires = 1

\* five calls in one burst, then the quiet period: one invocation, with the
\* fifth call's arguments
C5_Witness ==
    /\ debLog.calls = 5 /\ debLog.oneBurst
    /\ debLog.fires = 1 /\ debLog.firedArgs = 5
    /\ debLog.firedAfter >= ResizeWait

\* C6: the throttled function is leading-edge and rate-limited: a call made
\* while it is not throttling invokes func at once (the very first call among
\* them), a call made before limit has passed since the last invocation is
\* dropped, and two invocations are never less than limit apart.
C6_ThrottleLeadingEdge ==
    /\ thrLog.gap = -1 \/ thrLog.gap >= ScrollLimit
    /\ thrLog.events > 0 =>
          /\ thrLog.lastRan = ~thrLog.lastInThrottle
          /\ thrLog.lastSince = -1 => thrLog.lastRan
          /\ (thrLog.lastSince # -1 /\ thrLog.lastSince < ScrollLimit) => ~thrLog.lastRan
    /\ thrLog.invoked + thrLog.dropped = thrLog.events

\* func was invoked, a call inside the window was dropped, and a call after
\* the window invoked func again
C6_Witness ==
    /\ thrLog.invoked >= 2 /\ thrLog.dropped >= 1
    /\ thrLog.gap >= ScrollLimit
    /\ thrLog.lastRan

\* C7: after handleScroll has run at scroll position p with a header present,
\* the header has the class 'scrolled' exactly if p > 100, whatever it had
\* before: 101 sets it, 100 removes it.
C7_ScrolledIffPast100 ==
    (headerPresent /\ thrLog.invoked > 0) =>
        /\ headerScrolled <=> thrLog.handledPos > 100
        /\ thrLog.handledPos = 101 => headerScrolled
        /\ thrLog.handledPos = 100 => ~headerScrolled

\* handleScroll ran at exactly 100 on a header that had the class, and removed it
C7_Witness ==
    /\ headerPresent /\ thrLog.invoked > 0
    /\ thrLog.handledPos = 100 /\ thrLog.before /\ ~headerScrolled

\* C19: once scroll events stop, the header's class 'scrolled' agrees with the
\* final scroll position: after the last scroll event, with no timer of the
\* throttle pending, the header has 'scrolled' exactly if the position is
\* greater than 100.
C19_HeaderFollowsFinalPosition ==
    (headerPresent /\ thrLog.events > 0 /\ thrTimeout = -1 /\ ~inThrottle)
        => (headerScrolled <=> scrollY > ScrollThreshold)

\* C20: a project card carries the hover transform only while the pointer is
\* over it: after any interleaving of mouseenter, mouseleave and
\* motion-preference change events, a card the pointer has left (or never
\* entered) does not have the hover transform.
C20_HoverOnlyUnderPointer ==
    \A i \in 1..Len(cards) : cards[i].transform = HoverTransform => pointer = i

\* the setupScrollBehavior runs that found scroll.smooth set
SmoothSetups == {k \in 1..Len(scrollSetups) : scrollSetups[k]}

\* C15: when smooth scrolling is enabled in the config, a click on any in-page
\* anchor link (href starting with '#') has its default navigation prevented
\* and calls smoothScrollTo for the link's target with the configured offset;
\* when smooth scrolling is disabled at setup, no anchor link gets a handler.
C15_EveryAnchorClick ==
    /\ (lastClick.card # 0 /\ lastClick.smooth /\ lastClick.href # NoHref
            /\ Len(lastClick.href) > 0 /\ lastClick.href[1] = "#")
          => /\ lastClick.anchor >= 1
             /\ lastClick.selector = lastClick.href
             /\ lastClick.offset = lastClick.cfgOffset
    /\ SmoothSetups = {} => \A i \in 1..Len(cards) : cards[i].anchor = 0

\* C15, for the links of the document at setup: a link has one smooth-scroll
\* handler for each setupScrollBehavior run that found scroll.smooth set, if it
\* is an in-page anchor link that was in the document then, and none
\* otherwise; a click on a link with such a handler is prevented and calls
\* smoothScrollTo with '#' + the rest of the href and the offset the config
\* holds at the click.
C15_AnchorsAtSetup ==
    /\ \A i \in 1..Len(cards) :
          cards[i].anchor = IF cards[i].initial /\ IsInPageAnchor(cards[i])
                            THEN Cardinality(SmoothSetups) ELSE 0
    /\ (lastClick.card # 0 /\ lastClick.anchor > 0) =>
          /\ lastClick.href[1] = "#"
          /\ lastClick.selector = lastClick.href
          /\ lastClick.offset = lastClick.cfgOffset
    /\ (lastClick.card # 0 /\ lastClick.anchor = 0) =>
          (lastClick.selector = NoHref /\ lastClick.offset = -1)

\* a markup link to '#s' was clicked after the configured offset was changed
\* to 0: its handler prevented the navigation and scrolled with offset 0,
\* while an added card's in-page link has no handler
C15_Witness ==
    /\ lastClick.card # 0 /\ cards[lastClick.card].initial
    /\ lastClick.href = <<"#", "s">> /\ lastClick.anchor >= 1
    /\ lastClick.selector = <<"#", "s">> /\ lastClick.offset = 0
    /\ \E i \in 1..Len(cards) :
          ~cards[i].initial /\ IsInPageAnchor(cards[i]) /\ cards[i].anchor = 0

\* C16: init() works in a fixed order: it waits for the document to be ready,
\* then constructs and initializes hero, projects, skills in this order, then
\* wires the global listeners, then the scroll behaviour, and only then sets
\* its initialized flag; no section is constructed while the document is
\* loading and no global listener is wired before the last section was handled.
C16_InitOrder ==
    /\ run > 0 => readyState = "ready"
    /\ \A r \in Runs :
          /\ (\E n \in Sections : inst[r][n].constructed) => (readyState = "ready" /\ r <= run)
          /\ inst[r]["projects"].constructed => inst[r]["hero"].constructed
          /\ inst[r]["skills"].constructed => inst[r]["projects"].constructed
          /\ (resizeListeners >= r \/ scrollListeners >= r \/ motionListeners >= r)
                => inst[r]["skills"].constructed
          /\ Len(scrollSetups) >= r
                => (resizeListeners >= r /\ scrollListeners >= r /\ motionListeners >= r)
    /\ isInitialized => Len(scrollSetups) >= 1

\* one init() has run to its end on a document that was ready by then
C16_Witness ==
    /\ isInitialized /\ pc = "idle" /\ run = 1 /\ readyState = "ready"
    /\ \A n \in Sections : inst[1][n].constructed
    /\ resizeListeners = 1 /\ scrollListeners = 1 /\ motionListeners = 1
    /\ Len(scrollSetups) = 1

\* C17: after a reduced-motion change event has been handled, the stored
\* animations.enabled is the negation of the media query's matches, and the
\* update is a shallow merge: duration and easing of the animations group and
\* the scroll, theme and sections groups are as before the event.
C17_MotionChangeMerges ==
    (lastEvent.kind = "motion" /\ lastEvent.handled) =>
        /\ lastEvent.after.animations.enabled = ~lastEvent.matches
        /\ lastEvent.after.animations =
              [lastEvent.before.animations EXCEPT !.enabled = ~lastEvent.matches]
        /\ \A g \in {"scroll", "theme", "sections"} :
              lastEvent.after[g] = lastEvent.before[g]

\* the media query started to match while the config held a duration of 500
\* and a scroll offset of 0: the listener cleared enabled and kept the rest
C17_Witness ==
    /\ lastEvent.kind = "motion" /\ lastEvent.handled /\ lastEvent.matches
    /\ lastEvent.before.animations.enabled
    /\ lastEvent.before.animations.duration = 500
    /\ lastEvent.before.scroll.offset = 0
    /\ ~lastEvent.after.animations.enabled
    /\ lastEvent.after.animations.duration = 500
    /\ lastEvent.after.scroll.offset = 0

ApiKinds == {"updateUserData", "addProject", "addSkill"}

\* C13: updateUserInfo treats name, tagline and summary independently: the
\* text of a node is replaced exactly if the node exists and its field is
\* provided (truthy); the node of an omitted field is left as it was, so
\* updateUserInfo({name: 'X'}) changes the name node only.
C13_FieldsIndependent ==
    (lastEvent.kind = "updateUserData" /\ lastEvent.forwarded) =>
        \A f \in NodeNames :
            LET b == lastEvent.before.hero[f]
                a == lastEvent.after.hero[f]
                v == Field(lastEvent.arg, f)
            IN IF b.present /\ Truthy(v)
               THEN a = [b EXCEPT !.text = IF f = "name" THEN <<Greeting, v>> ELSE <<v>>]
               ELSE a = b

\* updateUserInfo({name: 'X'}) ran with the three nodes in the document: the
\* name node holds the greeting, tagline and summary hold the markup's text
C13_Witness ==
    /\ lastEvent.kind = "updateUserData" /\ lastEvent.forwarded
    /\ lastEvent.arg = [name |-> "X"]
    /\ \A f \in NodeNames : lastEvent.before.hero[f] = Node(TRUE, MarkupText)
    /\ lastEvent.after.hero["name"].text = <<Greeting, "X">>
    /\ lastEvent.after.hero["tagline"].text = MarkupText
    /\ lastEvent.after.hero["summary"].text = MarkupText

\* C14: updateUserData, addProject and addSkill change nothing (no node of
\* the document, no call of a section's method) when the section's controller
\* is not registered in the app or the argument is falsy, and getSection gives
\* null for every name that was never registered; in every state, also before
\* init() has completed.
C14_ApiNoOp ==
    /\ (lastEvent.kind \in ApiKinds /\ (~lastEvent.registered \/ ~lastEvent.truthy))
          => (~lastEvent.forwarded /\ lastEvent.after = lastEvent.before)
    /\ \A name \in Sections \cup {"about"} :
          (\A r \in Runs : name \in Sections =>
                (~inst[r][name].constructed \/ inst[r][name].threw))
             => GetSection(name) = 0

\* addSkill('') was called with the skills controller registered and the
\* grid in the document, and no tag was appended
C14_Witness ==
    /\ lastEvent.kind = "addSkill" /\ lastEvent.registered /\ ~lastEvent.truthy
    /\ skillsGridPresent
    /\ lastEvent.after = lastEvent.before

\* C11: in the projects and skills sections the fade-in of the Nth observed
\* card or tag is scheduled with a delay of the section's animationDelay plus
\* N times the step (projects: 200 + N * 100, skills: 300 + N * 50), N being
\* the element's index among the section's cards or tags.
C11_BasePlusStagger ==
    \A f \in BagToSet(fades) :
        f.el[2] = "items" =>
            f.delay = config.sections[f.el[1]].animationDelay
                        + (f.el[3] - 1) * (IF f.el[1] = "projects" THEN 100 ELSE 50)

\* C11, as the callbacks compute it: the card or tag with index N is faded in
\* with a delay of N times the step alone (projects: N * 100, skills: N * 50);
\* the section's animationDelay is the delay of the fade-in of the section's
\* root element.
C11_StaggerOnly ==
    \A f \in BagToSet(fades) :
        /\ f.el[2] = "items" =>
              f.delay = (f.el[3] - 1) * (IF f.el[1] = "projects" THEN 100 ELSE 50)
        /\ f.el[2] = "root" => f.delay = config.sections[f.el[1]].animationDelay

\* the second card and the second tag were reported intersecting: their
\* fade-ins are pending with delays 100 and 50, that of the projects root
\* with delay 200
C11_Witness ==
    /\ [el |-> <<"projects", "items", 2>>, delay |-> 100, phase |-> "timer"]
          \in BagToSet(fades)
    /\ [el |-> <<"skills", "items", 2>>, delay |-> 50, phase |-> "timer"]
          \in BagToSet(fades)
    /\ [el |-> <<"projects", "root", 0>>, delay |-> 200, phase |-> "timer"]
          \in BagToSet(fades)

\* C12: for each element registered by one observeElements call the callback
\* runs at most once over any sequence of intersection notifications: it runs
\* when the element is first reported intersecting, the element is then
\* unobserved and no later notification runs it again; a notification that is
\* not intersecting never runs it.
C12_CallbackAtMostOnce ==
    /\ \A key \in BagToSet(cbRuns) : CopiesIn(key, cbRuns) <= 1
    /\ \A key \in unobserved : CopiesIn(key, cbRuns) >= 1
    /\ \A key \in BagToSet(cbRuns) : key \in unobserved
    /\ (lastEvent.kind = "notify" /\ ~lastEvent.intersecting) => lastEvent.ran = 0

\* the fade-ins of element el under way, and those waiting for their frame
Pending(el) == {f \in BagToSet(fades) : f.el = el}
FramesDue(el) ==
    LET fs == {f \in Pending(el) : f.phase = "frame"}
    IN IF fs = {} THEN 0
       ELSE BagCardinality([f \in fs |-> CopiesIn(f, fades)])

C18_TwoPhase ==
    /\ \A el \in Elements :
          LET st == styles[el]
          IN /\ st.settles <= st.starts
             /\ st.starts = st.settles + FramesDue(el)
             /\ st.opacity = "" <=> st.starts = 0
             /\ st.opacity = "0" => (st.transform = "translateY(20px)" /\ FramesDue(el) > 0)
             /\ st.opacity = "1" => (st.transform = "translateY(0)" /\ st.settles > 0)
    /\ lastEvent.kind = "fadeIn" =>
          lastEvent.scheduled = IF lastEvent.el = NoElement THEN 0 ELSE 1

C18_Completes ==
    \A el \in Elements :
        (Pending(el) # {}) ~> (Pending(el) = {} /\ styles[el].opacity = "1")

\* C18: every fadeIn(element, delay) on an element is two-phase and completes:
\* the timer callback sets the starting style (opacity '0', translateY(20px)),
\* the visible style (opacity '1', translateY(0)) is set only by a later
\* animation-frame callback and never before the starting style, and the
\* element ends with opacity '1'; fadeIn on null schedules nothing.
C18_FadeInTwoPhase == []C18_TwoPhase /\ C18_Completes

\* an element was faded in twice and both fade-ins have completed; the last
\* fadeIn call was made on null
C18_Witness ==
    /\ \E el \in Elements :
          /\ styles[el].starts = 2 /\ styles[el].settles = 2
          /\ styles[el].opacity = "1" /\ Pending(el) = {}
    /\ lastEvent.kind = "fadeIn" /\ lastEvent.el = NoElement /\ lastEvent.scheduled = 0

\* the section each public mutator forwards to
ApiSection ==
    [k \in ApiKinds |-> CASE k = "updateUserData" -> "hero"
                          [] k = "addProject" -> "projects"
                          [] k = "addSkill" -> "skills"]

\* C22: a section whose root element was missing at startup never becomes
\* initialized, and updateUserData, addProject and addSkill called on the
\* application controller for that section never change the document.
C22_UninitializedInert ==
    \A n \in Sections :
        ~hasRoot[n] =>
            /\ \A r \in Runs : ~inst[r][n].isInitialized
            /\ (lastEvent.kind \in ApiKinds /\ ApiSection[lastEvent.kind] = n)
                  => lastEvent.after = lastEvent.before

\* every step: a controller's observers come to exist only in the step that
\* initializes it, exactly if areAnimationsEnabled() holds then, and a change
\* of the preference leaves controllers, observed targets, pending fade-ins
\* and styles as they were
C21_ObserversStep ==
    /\ \A r \in Runs, n \in Sections :
          inst'[r][n].observing =
              IF pc = n /\ run = r
              THEN hasRoot[n] /\ ioDefined
                     /\ config.animations.enabled /\ ~mqMatches
              ELSE inst[r][n].observing
    /\ mqMatches' # mqMatches =>
          (inst' = inst /\ unobserved' = unobserved /\ fades' = fades /\ styles' = styles)

\* a fade-in pending while animations are disabled still completes
C21_TimersComplete ==
    \A el \in {<<"projects", "root", 0>>, <<"projects", "items", 1>>} :
        (Pending(el) # {} /\ (mqMatches \/ ~config.animations.enabled))
            ~> (Pending(el) = {} /\ styles[el].opacity = "1")

\* C21: whether a section's observers exist is decided once, when the section
\* is initialized: with areAnimationsEnabled() false then, no observer is ever
\* registered for it, even if animations are enabled later; with it true, a
\* later change of the motion preference removes no registered observer and
\* cancels no scheduled fade-in timer, and those fade-ins run to completion.
C21_DecidedAtInit == [][C21_ObserversStep]_vars /\ C21_TimersComplete

\* reduced motion holds and the handler has disabled the animations, the
\* projects controller still has its observers with the card still observed,
\* and the fade-in of the section root has completed
C21_Witness ==
    /\ mqMatches /\ ~config.animations.enabled
    /\ inst[1]["projects"].observing
    /\ 1 \in Observed(1, "projects", "items")
    /\ styles[<<"projects", "root", 0>>].settles >= 1
    /\ Pending(<<"projects", "root", 0>>) = {}

====
